---- MODULE Spec2Model ----
(***************************************************************************)
(* Model of src/WgCtl.ts: the WgCtl controller client.                     *)
(*                                                                         *)
(* One WgCtl instance, its socket and the datagrams it hands to the        *)
(* socket.  Strings that hold an address are modelled as the tuple of      *)
(* their octets ("10.0.0.42" is <<10, 0, 0, 42>>, "" is << >>); a hex      *)
(* string is the sequence of its digits' values.  An absent (undefined)    *)
(* number is 0, which JavaScript's truthiness tests treat the same way.    *)
(*                                                                         *)
(* Scheduling is Node's single-threaded event loop: every action is one    *)
(* run-to-completion callback, and a promise continuation (a microtask)    *)
(* runs before the next callback of the loop.                              *)
(***************************************************************************)
EXTENDS Integers, Sequences, FiniteSets, TLC

\* ------------------------------------------------------------------ bounds

\* API commands issued by the caller over the life of the instance.
MaxCalls == 2
\* Datagrams arriving on the local socket.
MaxMsgs == 2

\* --------------------------------------------------------------- constants

FrameLen == 64
Marker == 23            \* 0x17
DefaultPort == 60000
FnSearch == 148         \* 0x94
FnOpenDoor == 64        \* 0x40
FnGetDate == 50         \* 0x32
FnSetDate == 48         \* 0x30
FnSetAuth == 80         \* 0x50
FnGetAuth == 90         \* 0x5A
FnRemoveAuth == 82      \* 0x52
FnClearAuth == 84       \* 0x54
FnSetServerAddress == 144   \* 0x90
FnSetAddress == 150     \* 0x96
FnGetServerAddress == 146   \* 0x92

NoIp == << >>
BroadcastIp == <<255, 255, 255, 255>>
InvalidIp == <<192, 168, 0, 0>>

\* ------------------------------------------------------------ input domains

DeviceIp == <<10, 0, 0, 42>>
OtherIp == <<10, 0, 0, 43>>
CallbackIp == <<10, 0, 0, 5>>
NetMask == <<255, 255, 255, 0>>
Gateway == <<10, 0, 0, 1>>

ArgSockets == {"udp", "tcp"}
ArgSerials == {0, 1001}
ArgServerIps == {NoIp, CallbackIp}
ArgServerPorts == {0, 9000}
ArgIps == {NoIp, DeviceIp}
ArgDoors == {1, 5}
ArgCards == {70000}
ArgDates == {<<2019, 12, 31, 23, 59, 58>>}

Garbage == [valid |-> FALSE, serial |-> 0, ip |-> NoIp]

\* Datagrams on the wire towards the instance: a well-formed reply of a device
\* (its serial and the ip it reports) or bytes the response decoder rejects.
Replies ==
    [valid : {TRUE}, serial : {1001}, ip : {DeviceIp, InvalidIp}]
    \cup {[valid |-> TRUE, serial |-> 1002, ip |-> OtherIp], Garbage}

VARIABLES
    args,           \* the constructor's arguments
    stage,          \* "new": not constructed, "live": constructed, "failed": the constructor raised
    ip,             \* this.ip
    port,           \* this.port
    serial,         \* this.serial
    localSocket,    \* this.localSocket is set
    remoteSocket,   \* this.remoteSocket is set
    serverIp,       \* this.serverIp
    serverPort,     \* this.serverPort
    detected,       \* state of the promise this.detected
    detectPc,       \* position of the async detect()
    listener,       \* the once("message") listener of detect() is registered
    broadcast,      \* the local socket's broadcast flag
    sent,           \* number of datagrams handed to a socket so far
    last,           \* the latest of them: frame, destination, the broadcast flag
                    \* it was sent under, and who sent it
    flow,           \* the datagrams detect() itself has sent, in order
    pending,        \* number of completion callbacks not yet called, by whether
                    \* their send enabled broadcast mode
    received,       \* number of datagrams the local socket has emitted as "message"
    lastMsg,        \* the latest of them
    heard,          \* what the decoder made of them: an error, or a reply's serial
    outcome,        \* how the listener resolved discovery, and the ip it cached
    uncaught,       \* exceptions that left a "message" listener
    calls,          \* API commands issued so far
    lastCall,       \* the latest of them: its name, its arguments, whether it raised
    cbErr           \* the step just taken is a completion callback reporting an error

vars == <<args, stage, ip, port, serial, localSocket, remoteSocket, serverIp,
          serverPort, detected, detectPc, listener, broadcast, sent, last, flow,
          pending, received, lastMsg, heard, outcome, uncaught, calls, lastCall,
          cbErr>>

\* ------------------------------------------------------------------- bytes

Zeros(n) == [i \in 1..n |-> 0]

\* Buffer.write / Buffer.fill at a 0-based offset, cut at the buffer's end.
WriteBytes(buf, off, bytes) ==
    [i \in 1..Len(buf) |->
        IF i > off /\ i <= off + Len(bytes) THEN bytes[i - off] ELSE buf[i]]

\* A faulty variant of UInt32LE: the most significant byte comes first.
UInt32LE_BigEndian(v) ==
    <<(v \div 16777216) % 256, (v \div 65536) % 256, (v \div 256) % 256, v % 256>>

\* Buffer.writeUInt32LE and writeUInt16LE: the least significant byte first.
UInt32LE(v) ==
    <<v % 256, (v \div 256) % 256, (v \div 65536) % 256, (v \div 16777216) % 256>>

UInt16LE(v) == <<v % 256, (v \div 256) % 256>>

\* Buffer's "hex" decoding: two digits a byte, a trailing odd digit dropped.
HexDecode(digits) ==
    [i \in 1..(Len(digits) \div 2) |-> 16 * digits[2 * i - 1] + digits[2 * i]]

\* utils.ipToHex: the dotted quad as eight hex digits.
ipToHex(addr) ==
    [i \in 1..(2 * Len(addr)) |->
        IF i % 2 = 1 THEN addr[(i + 1) \div 2] \div 16 ELSE addr[i \div 2] % 16]

\* utils.buildBcdDate: year (two bytes), month, day, hour, minute, second, each
\* two decimal digits a byte.
Bcd(n) == 16 * ((n \div 10) % 10) + (n % 10)

buildBcdDate(d) ==
    <<Bcd(d[1] \div 100), Bcd(d[1] % 100), Bcd(d[2]), Bcd(d[3]), Bcd(d[4]),
      Bcd(d[5]), Bcd(d[6])>>

\* utils.parseData: the decoded reply, or err when the decoder raises.
parseData(msg) ==
    [err |-> ~msg.valid, serial |-> msg.serial, ip |-> msg.ip]

\* Buffer.writeUInt8 / writeUInt16LE / writeUInt32LE raise a RangeError for a
\* value outside the field.  (Model integers end at 2^31 - 1, below the upper
\* end of a uint32, so only the lower end of that field can be crossed here.)
FitsUInt8(v) == v \in 0..255

FitsUInt16(v) == v \in 0..65535

FitsUInt32(v) == v >= 0

\* ----------------------------------------------------------------- payloads

NoPayload == [type |-> "none", bytes |-> << >>, n |-> 0]
BufferPayload(b) == [type |-> "buffer", bytes |-> b, n |-> 0]
NumberPayload(k) == [type |-> "number", bytes |-> << >>, n |-> k]

\* JavaScript's truthiness of packData's payload argument.
Truthy(payload) ==
    \/ payload.type = "buffer"
    \/ payload.type = "number" /\ payload.n # 0

\* A faulty variant of packData: the payload is written from the start of the
\* frame, over the header.
packData_PayloadAtStart(ser, funcCode, payload) ==
    LET d0 == WriteBytes(Zeros(FrameLen), 0, <<Marker>>)
        d1 == WriteBytes(d0, 1, <<funcCode>>)
        d2 == IF ser # 0 THEN WriteBytes(d1, 4, UInt32LE(ser)) ELSE d1
    IN  IF ~Truthy(payload) THEN d2
        ELSE IF payload.type = "buffer" THEN WriteBytes(d2, 0, payload.bytes)
        ELSE WriteBytes(d2, 0, <<payload.n>>)

\* packData raises: on the serial, or on a number payload, that does not fit.
packDataThrows(ser, payload) ==
    \/ ser # 0 /\ ~FitsUInt32(ser)
    \/ Truthy(payload) /\ payload.type = "number" /\ ~FitsUInt8(payload.n)

packData(ser, funcCode, payload) ==
    LET d0 == WriteBytes(Zeros(FrameLen), 0, <<Marker>>)
        d1 == WriteBytes(d0, 1, <<funcCode>>)
        d2 == IF ser # 0 THEN WriteBytes(d1, 4, UInt32LE(ser)) ELSE d1
    IN  IF ~Truthy(payload) THEN d2
        ELSE IF payload.type = "buffer" THEN WriteBytes(d2, 8, payload.bytes)
        ELSE WriteBytes(d2, 8, <<payload.n>>)

\* ---------------------------------------------------------------- transport

\* The fields of the instance a send reads.
This ==
    [ip |-> ip, port |-> port, serial |-> serial,
     localSocket |-> localSocket, remoteSocket |-> remoteSocket]

\* localSendData's test for enabling broadcast mode.
NeedsBroadcast(ipNow) == ipNow = NoIp

\* A faulty variant of Destination: every datagram goes to the broadcast address.
Destination_AlwaysBroadcast(ipNow) == BroadcastIp

\* localSendData's destination: this.ip || "255.255.255.255".
Destination(ipNow) == IF ipNow = NoIp THEN BroadcastIp ELSE ipNow

\* The value of last before anything is sent.
Nothing ==
    [via |-> "none", data |-> << >>, port |-> 0, address |-> NoIp,
     bcast |-> FALSE, by |-> "none"]

\* A datagram is handed to a socket.
Emit(d) ==
    /\ sent' = sent + 1
    /\ last' = d
    /\ flow' = IF d.by = "detect" THEN Append(flow, d) ELSE flow

\* remoteSocket.write(data, callback)
remoteSendData(self, data, by) ==
    IF ~self.remoteSocket
    THEN UNCHANGED <<broadcast, sent, last, flow, pending>>
    ELSE /\ Emit([via |-> "tcp", data |-> data, port |-> 0, address |-> NoIp,
                  bcast |-> FALSE, by |-> by])
         /\ pending' = [pending EXCEPT ![FALSE] = @ + 1]
         /\ UNCHANGED broadcast

\* localSocket.setBroadcast(true) when no ip is cached, then localSocket.send.
localSendData(self, data, by) ==
    IF ~self.localSocket
    THEN UNCHANGED <<broadcast, sent, last, flow, pending>>
    ELSE /\ broadcast' = IF NeedsBroadcast(self.ip) THEN TRUE ELSE broadcast
         /\ Emit([via |-> "udp", data |-> data, port |-> self.port,
                  address |-> Destination(self.ip), bcast |-> broadcast', by |-> by])
         /\ pending' = [pending EXCEPT ![NeedsBroadcast(self.ip)] = @ + 1]

sendData(self, funcCode, payload, by) ==
    LET data == packData(self.serial, funcCode, payload)
    IN  IF self.remoteSocket
        THEN remoteSendData(self, data, by)
        ELSE localSendData(self, data, by)

\* ------------------------------------------------------- command payloads

HexDate1 == <<2, 0, 1, 9, 0, 1, 0, 1>>      \* "20190101"
HexDate2 == <<2, 0, 2, 9, 1, 2, 3, 1>>      \* "20291231"
HexToken == <<5, 5, 10, 10, 10, 10, 5, 5>>  \* "55aaaa55"

\* A faulty variant of setAuthPayload: the doors are counted from 0.
setAuthPayload_ZeroBased(cardNo, door) ==
    LET p0 == WriteBytes(Zeros(16), 0, UInt32LE(cardNo))
        p1 == WriteBytes(p0, 4, HexDecode(HexDate1))
        p2 == WriteBytes(p1, 8, HexDecode(HexDate2))
        p3 == WriteBytes(p2, 12, <<IF door = 0 THEN 1 ELSE 0>>)
        p4 == WriteBytes(p3, 13, <<IF door = 1 THEN 1 ELSE 0>>)
        p5 == WriteBytes(p4, 14, <<IF door = 2 THEN 1 ELSE 0>>)
    IN  WriteBytes(p5, 15, <<IF door = 3 THEN 1 ELSE 0>>)

\* setAuth's payload: the card, the validity dates, a byte per door.
setAuthPayload(cardNo, door) ==
    LET p0 == WriteBytes(Zeros(16), 0, UInt32LE(cardNo))
        p1 == WriteBytes(p0, 4, HexDecode(HexDate1))
        p2 == WriteBytes(p1, 8, HexDecode(HexDate2))
        p3 == WriteBytes(p2, 12, <<IF door = 1 THEN 1 ELSE 0>>)
        p4 == WriteBytes(p3, 13, <<IF door = 2 THEN 1 ELSE 0>>)
        p5 == WriteBytes(p4, 14, <<IF door = 3 THEN 1 ELSE 0>>)
    IN  WriteBytes(p5, 15, <<IF door = 4 THEN 1 ELSE 0>>)

cardPayload(cardNo) == WriteBytes(Zeros(56), 0, UInt32LE(cardNo))

clearAuthPayload == HexDecode(HexToken)

setServerAddressPayload(addr, prt, interval) ==
    LET p0 == WriteBytes(Zeros(7), 0, HexDecode(ipToHex(addr)))
        p1 == WriteBytes(p0, 4, UInt16LE(prt))
    IN  WriteBytes(p1, 6, <<interval>>)

\* The writes of the payload builders that raise a RangeError.
cardThrows(cardNo) == ~FitsUInt32(cardNo)

setServerAddressThrows(prt, interval) == ~FitsUInt16(prt) \/ ~FitsUInt8(interval)

setAddressPayload(addr, subnet, gateway) ==
    LET p0 == WriteBytes(Zeros(16), 0, HexDecode(ipToHex(addr)))
        p1 == WriteBytes(p0, 4, HexDecode(ipToHex(subnet)))
        p2 == WriteBytes(p1, 8, HexDecode(ipToHex(gateway)))
    IN  WriteBytes(p2, 12, HexDecode(HexToken))

\* ------------------------------------------------------------ construction

\* The value of lastCall before any command is issued.
NoCall == [name |-> "none", args |-> << >>, raised |-> FALSE]

\* Every field before the constructor has run; the ghosts empty.
Fresh ==
    /\ stage = "new"
    /\ ip = NoIp
    /\ port = 0
    /\ serial = 0
    /\ localSocket = FALSE
    /\ remoteSocket = FALSE
    /\ serverIp = NoIp
    /\ serverPort = 0
    /\ detected = "none"
    /\ detectPc = "none"
    /\ listener = FALSE
    /\ broadcast = FALSE
    /\ sent = 0
    /\ last = Nothing
    /\ flow = << >>
    /\ pending = [b \in BOOLEAN |-> 0]
    /\ received = 0
    /\ lastMsg = Garbage
    /\ heard = {}
    /\ outcome = [state |-> "none", ip |-> NoIp]
    /\ uncaught = 0
    /\ calls = 0
    /\ lastCall = NoCall
    /\ cbErr = FALSE

Init ==
    /\ args \in [socket : ArgSockets, serial : ArgSerials, serverIp : ArgServerIps,
                 serverPort : ArgServerPorts, ip : ArgIps, port : {DefaultPort}]
    /\ Fresh

\* The constructor's test in its non-UDP branch, on the instance's own fields.
RemoteConfigError(fieldServerIp, fieldServerPort) ==
    fieldServerIp # NoIp \/ fieldServerPort # 0

\* A faulty variant of ShouldDetect: discovery starts on either transport.
ShouldDetect_AnySocket(ipNow, hasLocal, ser) == ipNow = NoIp /\ ser # 0

\* The constructor's test for starting detect().
ShouldDetect(ipNow, hasLocal, ser) == ipNow = NoIp /\ hasLocal /\ ser # 0

\* detect()'s test on entry.
DetectThrows(sIp, sPort) == sIp = NoIp \/ sPort = 0

\* new WgCtl(socket, serial, serverIp, serverPort, ip, port), with the part of
\* detect() that runs before its await.  detect() is async: when it throws on
\* entry its promise is rejected (detectPc = "rejected"), which nothing awaits,
\* and the constructor returns normally.
Constructor ==
    /\ stage = "new"
    /\ LET udp == args.socket = "udp"
           \* serverIp and serverPort are assigned in the UDP branch only
           fIp == IF udp THEN args.serverIp ELSE NoIp
           fPort == IF udp THEN args.serverPort ELSE 0
           raises == ~udp /\ RemoteConfigError(fIp, fPort)
           self == [ip |-> args.ip, port |-> args.port, serial |-> args.serial,
                    localSocket |-> udp, remoteSocket |-> ~udp]
           detects == ~raises /\ ShouldDetect(args.ip, udp, args.serial)
           searches == /\ detects
                       /\ ~DetectThrows(fIp, fPort)
                       /\ ~packDataThrows(args.serial, NoPayload)
       IN  /\ ip' = args.ip
           /\ port' = args.port
           /\ serial' = args.serial
           /\ localSocket' = udp
           /\ remoteSocket' = ~udp
           /\ serverIp' = fIp
           /\ serverPort' = fPort
           /\ stage' = IF raises THEN "failed" ELSE "live"
           /\ detectPc' = IF ~detects THEN "none"
                          ELSE IF searches THEN "awaiting" ELSE "rejected"
           /\ detected' = IF raises THEN "none"
                          ELSE IF searches THEN "pending"
                          ELSE IF args.ip # NoIp THEN "resolved_true" ELSE "resolved_false"
           /\ listener' = searches
           /\ IF searches
              THEN sendData(self, FnSearch, NoPayload, "detect")
              ELSE UNCHANGED <<broadcast, sent, last, flow, pending>>
    /\ UNCHANGED <<args, received, lastMsg, heard, outcome, uncaught, calls,
                   lastCall>>
    /\ cbErr' = FALSE

\* --------------------------------------------------------------- discovery

\* A faulty variant of MicrotaskPending: detect() does not wait for this.detected.
MicrotaskPending_NoAwait == detectPc = "awaiting"

\* A resolved this.detected whose continuation in detect() has not run yet.
MicrotaskPending == detectPc = "awaiting" /\ detected \notin {"pending", "none"}

\* A faulty variant of Idle: callbacks run ahead of a scheduled continuation.
Idle_NoPriority == stage = "live"

\* The loop is free to run a callback: an API call, a datagram, a completion.
Idle == stage = "live" /\ ~MicrotaskPending

\* A faulty variant of SerialMatches: the listener accepts a reply of any device.
SerialMatches_Any(data, ser) == TRUE

\* The listener's filter: data.serial !== this.serial returns.
SerialMatches(data, ser) == data.serial = ser

\* The ip the listener caches for a matching reply.
DetectedIp(data) == IF data.ip = InvalidIp THEN NoIp ELSE data.ip

\* The local socket emits "message".  A once() listener is removed before it is
\* called; with no listener the datagram is dropped.  An exception of the
\* decoder leaves the listener through emit() (uncaught); the promise is left
\* as it was.
Message(msg) ==
    /\ Idle
    /\ localSocket
    /\ received < MaxMsgs
    /\ received' = received + 1
    /\ lastMsg' = msg
    /\ heard' = heard \cup {[err |-> parseData(msg).err, serial |-> parseData(msg).serial]}
    /\ listener' = FALSE
    /\ LET data == parseData(msg)
           handled == listener /\ ~data.err /\ SerialMatches(data, serial)
       IN  /\ uncaught' = IF listener /\ data.err THEN uncaught + 1 ELSE uncaught
           /\ ip' = IF handled THEN DetectedIp(data) ELSE ip
           /\ detected' = IF handled THEN "resolved_true" ELSE detected
           /\ outcome' = IF ~handled THEN outcome
                         ELSE [state |-> IF data.ip = InvalidIp THEN "Invalid" ELSE "Resolved",
                               ip |-> DetectedIp(data)]
    /\ UNCHANGED <<args, stage, port, serial, localSocket, remoteSocket, serverIp,
                   serverPort, detectPc, broadcast, sent, last, flow, pending, calls,
                   lastCall>>
    /\ cbErr' = FALSE

\* detect() after its await: the try/catch, then setServerAddress.  A
\* RangeError of setServerAddress rejects detect()'s promise.
DetectResume ==
    /\ stage = "live"
    /\ MicrotaskPending
    /\ LET payload == BufferPayload(setServerAddressPayload(serverIp, serverPort, 0))
           raises == \/ setServerAddressThrows(serverPort, 0)
                     \/ packDataThrows(serial, payload)
       IN  IF raises
           THEN /\ detectPc' = "rejected"
                /\ UNCHANGED <<broadcast, sent, last, flow, pending>>
           ELSE /\ detectPc' = "done"
                /\ sendData(This, FnSetServerAddress, payload, "detect")
    /\ UNCHANGED <<args, stage, ip, port, serial, localSocket, remoteSocket, serverIp,
                   serverPort, detected, listener, received, lastMsg, heard, outcome, uncaught>>
    /\ UNCHANGED <<calls, lastCall>>
    /\ cbErr' = FALSE

\* A faulty variant of SendCallback: a failed send is handed to the socket again.
SendCallback_Retries(b, err) ==
    /\ Idle
    /\ pending[b] > 0
    /\ pending' = [pending EXCEPT ![b] = @ - 1]
    /\ sent' = IF err THEN sent + 1 ELSE sent
    /\ cbErr' = err
    /\ UNCHANGED <<args, stage, ip, port, serial, localSocket, remoteSocket, serverIp,
                   serverPort, detected, detectPc, listener, broadcast, last, flow,
                   received, lastMsg, heard, outcome, uncaught, calls, lastCall>>

\* The completion callback of a send (of one that enabled broadcast mode, or of
\* one that did not), with or without an error; callbacks complete in any order.
SendCallback(b, err) ==
    /\ Idle
    /\ pending[b] > 0
    /\ pending' = [pending EXCEPT ![b] = @ - 1]
    /\ broadcast' = IF err /\ ~remoteSocket /\ ip = NoIp /\ localSocket
                    THEN FALSE ELSE broadcast
    /\ cbErr' = err
    /\ UNCHANGED lastCall
    /\ UNCHANGED <<args, stage, ip, port, serial, localSocket, remoteSocket, serverIp,
                   serverPort, detected, detectPc, listener, sent, last, flow, received,
                   lastMsg, heard, outcome, uncaught, calls>>

\* ---------------------------------------------------------------- commands

\* A command: it raises when building its payload or packing the frame raises
\* (then nothing is sent), and otherwise sends one frame.  What it does to
\* this.ip is the caller's conjunct.
Command(name, callArgs, funcCode, payload, payloadThrows) ==
    LET raises == payloadThrows \/ packDataThrows(serial, payload)
    IN  /\ Idle
        /\ calls < MaxCalls
        /\ calls' = calls + 1
        /\ lastCall' = [name |-> name, args |-> callArgs, raised |-> raises]
        /\ IF raises
           THEN UNCHANGED <<broadcast, sent, last, flow, pending>>
           ELSE sendData(This, funcCode, payload, "api")
        /\ UNCHANGED <<args, stage, port, serial, localSocket, remoteSocket, serverIp,
                       serverPort, detected, detectPc, listener, received, lastMsg,
                       heard, outcome, uncaught>>
        /\ cbErr' = FALSE

search == Command("search", << >>, FnSearch, NoPayload, FALSE) /\ UNCHANGED ip

\* A faulty variant of openDoor: it forgets the cached ip.
openDoor_ResetsIp(door) ==
    Command("openDoor", <<door>>, FnOpenDoor, NumberPayload(door), FALSE) /\ ip' = NoIp

openDoor(door) ==
    Command("openDoor", <<door>>, FnOpenDoor, NumberPayload(door), FALSE) /\ UNCHANGED ip

getDate == Command("getDate", << >>, FnGetDate, NoPayload, FALSE) /\ UNCHANGED ip

setDate(date) ==
    Command("setDate", <<date>>, FnSetDate, BufferPayload(buildBcdDate(date)), FALSE)
    /\ UNCHANGED ip

setAuth(cardNo, door) ==
    Command("setAuth", <<cardNo, door>>, FnSetAuth,
            BufferPayload(setAuthPayload(cardNo, door)), cardThrows(cardNo))
    /\ UNCHANGED ip

getAuth(cardNo) ==
    Command("getAuth", <<cardNo>>, FnGetAuth, BufferPayload(cardPayload(cardNo)),
            cardThrows(cardNo))
    /\ UNCHANGED ip

removeAuth(cardNo) ==
    Command("removeAuth", <<cardNo>>, FnRemoveAuth, BufferPayload(cardPayload(cardNo)),
            cardThrows(cardNo))
    /\ UNCHANGED ip

clearAuth ==
    Command("clearAuth", << >>, FnClearAuth, BufferPayload(clearAuthPayload), FALSE)
    /\ UNCHANGED ip

setServerAddress(addr, prt, interval) ==
    Command("setServerAddress", <<addr, prt, interval>>, FnSetServerAddress,
            BufferPayload(setServerAddressPayload(addr, prt, interval)),
            setServerAddressThrows(prt, interval))
    /\ UNCHANGED ip

\* A faulty variant of setAddress: this.ip is cleared before sendData reads it.
setAddress_ClearsFirst(addr, subnet, gateway) ==
    /\ Idle
    /\ calls < MaxCalls
    /\ calls' = calls + 1
    /\ lastCall' = [name |-> "setAddress", args |-> <<addr, subnet, gateway>>,
                    raised |-> FALSE]
    /\ ip' = NoIp
    /\ sendData([This EXCEPT !.ip = NoIp], FnSetAddress,
                BufferPayload(setAddressPayload(addr, subnet, gateway)), "api")
    /\ UNCHANGED <<args, stage, port, serial, localSocket, remoteSocket, serverIp,
                   serverPort, detected, detectPc, listener, received, lastMsg,
                   heard, outcome, uncaught>>
    /\ cbErr' = FALSE

\* A faulty variant of setAddress: the cached ip survives the call.
setAddress_KeepsIp(addr, subnet, gateway) ==
    /\ Command("setAddress", <<addr, subnet, gateway>>, FnSetAddress,
               BufferPayload(setAddressPayload(addr, subnet, gateway)), FALSE)
    /\ UNCHANGED ip

\* this.ip = "" follows sendData: it is not reached when sendData raises (which
\* setAddress's own payload never causes).
setAddress(addr, subnet, gateway) ==
    /\ Command("setAddress", <<addr, subnet, gateway>>, FnSetAddress,
               BufferPayload(setAddressPayload(addr, subnet, gateway)), FALSE)
    /\ ip' = IF lastCall'.raised THEN ip ELSE NoIp

getServerAddress ==
    Command("getServerAddress", << >>, FnGetServerAddress, NoPayload, FALSE)
    /\ UNCHANGED ip

\* ------------------------------------------------------------ specification

Next ==
    \/ Constructor
    \/ \E msg \in Replies : Message(msg)
    \/ DetectResume
    \/ \E b \in BOOLEAN, err \in BOOLEAN : SendCallback(b, err)
    \/ search
    \/ \E door \in ArgDoors : openDoor(door)
    \/ getDate
    \/ \E date \in ArgDates : setDate(date)
    \/ \E cardNo \in ArgCards, door \in ArgDoors : setAuth(cardNo, door)
    \/ \E cardNo \in ArgCards : getAuth(cardNo)
    \/ \E cardNo \in ArgCards : removeAuth(cardNo)
    \/ clearAuth
    \/ setServerAddress(CallbackIp, 9000, 0)
    \/ setAddress(OtherIp, NetMask, Gateway)
    \/ getServerAddress

Spec == Init /\ [][Next]_vars

\* ------------------------------------------------ the encoder's input space

\* Arguments on and across the limits of the fields they are written to.
CodecSerials == {0, 305419896}

CodecDoors == {0, 1, 2, 3, 4, 5, 255, 256}

CodecCards == {0, 70000, 2147483647, -1}

CodecPorts == {9000, 65535, 65536}

CodecIntervals == {0, 255, 256}

CodecReplies ==
    {[valid |-> TRUE, serial |-> ser, ip |-> a] :
        ser \in CodecSerials \ {0}, a \in {DeviceIp, InvalidIp}}

\* An instance of either transport with a callback target and no ip, so that a
\* serial starts discovery on the Local transport.
CodecInit ==
    /\ args \in [socket : ArgSockets, serial : CodecSerials, serverIp : {CallbackIp},
                 serverPort : {9000}, ip : {NoIp}, port : {DefaultPort}]
    /\ Fresh

\* The frames of the discovery flow and of every command, over the wide arguments.
CodecNext ==
    \/ Constructor
    \/ \E msg \in CodecReplies : Message(msg)
    \/ DetectResume
    \/ search
    \/ \E door \in CodecDoors : openDoor(door)
    \/ getDate
    \/ \E date \in ArgDates : setDate(date)
    \/ \E cardNo \in CodecCards, door \in CodecDoors : setAuth(cardNo, door)
    \/ \E cardNo \in CodecCards : getAuth(cardNo)
    \/ \E cardNo \in CodecCards : removeAuth(cardNo)
    \/ clearAuth
    \/ \E prt \in CodecPorts, interval \in CodecIntervals :
          setServerAddress(CallbackIp, prt, interval)
    \/ setAddress(OtherIp, NetMask, Gateway)
    \/ getServerAddress

CodecSpec == CodecInit /\ [][CodecNext]_vars

\* ------------------------------------------------------------------ claims

\* detect() is suspended at its await and this.detected is still pending.
Searching == detectPc = "awaiting" /\ detected = "pending"

\* This step is the local socket emitting the datagram lastMsg'.
Delivered == received' = received + 1

\* This step is an API command.
Called == calls' = calls + 1

\* This step hands a datagram (last') to a socket.
Sends == sent' = sent + 1

Matching(m) == m.valid /\ m.serial = serial

Mismatched(m) == m.valid /\ m.serial # serial

\* A reply with the instance's serial has arrived.
MatchHeard == \E d \in heard : ~d.err /\ d.serial = serial

\* The constructor was given a callback ip or port.
CallbackGiven == args.serverIp # NoIp \/ args.serverPort # 0

\* Local transport, no device ip, a non-zero serial.
DiscoveryRequested == args.socket = "udp" /\ args.ip = NoIp /\ args.serial # 0

\* Bytes 8..14 of a setServerAddress frame for (addr, prt, interval).
ServerAddressBytes(addr, prt, interval) ==
    addr \o <<prt % 256, prt \div 256, interval>>

\* The setServerAddress frames detect() has sent.
FlowSetServer == SelectSeq(flow, LAMBDA d : d.data[2] = FnSetServerAddress)

\* C1: constructing with a Remote (TCP) transport and a callback ip or port makes
\* the constructor raise: no instance, and no frame written.
C1_RemoteCallbackRejected ==
    (stage # "new" /\ args.socket = "tcp" /\ CallbackGiven)
        => (stage = "failed" /\ sent = 0)

\* C2: while Searching, a reply whose serial differs from the instance's leaves
\* the cached ip unchanged and does not advance discovery: detect() stays
\* suspended with its continuation not scheduled, and no frame is sent.
C2_MismatchDiscarded ==
    [][(Searching /\ Delivered /\ Mismatched(lastMsg'))
         => (ip' = ip /\ Searching' /\ ~MicrotaskPending'
             /\ outcome' = outcome /\ sent' = sent /\ flow' = flow)]_vars

C2_Witness ==
    /\ Searching
    /\ received = 1
    /\ Mismatched(lastMsg)
    /\ ip = NoIp
    /\ Len(flow) = 1

\* C3: while Searching, after mismatched replies (and nothing else) have been
\* discarded, a reply with the instance's serial resolves discovery: the cached
\* ip is set from it (cleared for the sentinel) and the continuation that sends
\* setServerAddress is scheduled.
C3_LaterMatchResolves ==
    [][(/\ Searching
        /\ received >= 1
        /\ \A d \in heard : ~d.err /\ d.serial # serial
        /\ Delivered
        /\ Matching(lastMsg'))
         => (ip' = DetectedIp(lastMsg') /\ outcome'.state # "none" /\ MicrotaskPending')]_vars

\* C4: while Searching, a reply with the instance's serial and an ip other than
\* 192.168.0.0 sets the cached ip to that ip, and detect() then sends exactly one
\* setServerAddress frame, carrying the callback ip, the callback port and
\* interval 0.
C4_ResolvedSetsIp ==
    /\ [][(Searching /\ Delivered /\ Matching(lastMsg') /\ lastMsg'.ip # InvalidIp)
            => (ip' = lastMsg'.ip /\ MicrotaskPending')]_vars
    /\ [](detectPc = "done"
            => /\ Len(FlowSetServer) = 1
               /\ SubSeq(FlowSetServer[1].data, 9, 15)
                    = ServerAddressBytes(args.serverIp, args.serverPort, 0))

\* C5: while Searching, a reply with the instance's serial and the ip 192.168.0.0
\* leaves the cached ip absent, and detect() still goes on to send setServerAddress
\* with the callback target.
C5_InvalidStillConfigures ==
    /\ [][(Searching /\ Delivered /\ Matching(lastMsg') /\ lastMsg'.ip = InvalidIp)
            => (ip' = NoIp /\ MicrotaskPending')]_vars
    /\ []((detectPc = "done" /\ outcome.state = "Invalid")
            => /\ Len(FlowSetServer) = 1
               /\ SubSeq(FlowSetServer[1].data, 9, 15)
                    = ServerAddressBytes(args.serverIp, args.serverPort, 0))

\* C6: when the decoder raises on a reply the waiting listener receives, the
\* error does not leave the listener uncaught, and detect() is resumed (to send
\* setServerAddress).
C6_DecodeErrorCaught ==
    [][(Searching /\ listener /\ Delivered /\ ~lastMsg'.valid)
         => (uncaught' = uncaught /\ MicrotaskPending')]_vars

\* C7: construction starts discovery exactly when the transport is Local, no ip
\* was given and the serial is non-zero: then it sends one frame, a search frame
\* to the broadcast address, and registers the listener; in every other
\* configuration it sends nothing and registers no listener.
C7_DiscoveryStartsExactlyWhen ==
    [][(stage = "new" /\ stage' = "live")
         => IF DiscoveryRequested
            THEN /\ sent' = 1
                 /\ last'.data[2] = FnSearch
                 /\ last'.address = BroadcastIp
                 /\ listener'
            ELSE sent' = 0 /\ ~listener']_vars

\* C8: when discovery is requested and the callback ip or port is absent, the
\* constructor raises, and neither search nor setServerAddress is sent.
C8_MissingCallbackAborts ==
    (stage # "new" /\ DiscoveryRequested /\ (args.serverIp = NoIp \/ args.serverPort = 0))
        => (stage = "failed" /\ sent = 0)

\* C9: once discovery has started, as long as no reply with the instance's
\* serial has arrived, detect() stays suspended and has sent only its search
\* frame, the cached ip is absent, this.detected is neither resolved nor rejected,
\* the only exception ever raised is the decoder's on an undecodable datagram, and
\* every API command issued meanwhile is handed to the socket.
C9_NeverResolved ==
    /\ []((detectPc \in {"awaiting", "done"} /\ ~MatchHeard)
            => /\ Searching
               /\ stage = "live"
               /\ ip = NoIp
               /\ Len(flow) = 1
               /\ flow[1].data[2] = FnSearch
               /\ outcome.state = "none"
               /\ (uncaught > 0 => \E d \in heard : d.err))
    /\ [][(Searching /\ ~MatchHeard /\ Called)
            => (Sends /\ last'.by = "api" /\ Searching')]_vars

C9_Witness ==
    /\ Searching
    /\ ~MatchHeard
    /\ received = MaxMsgs
    /\ heard # {}
    /\ calls > 0
    /\ last.by = "api"
    /\ sent = calls + 1

\* The cached ip a send reads: the constructor assigns this.ip before it sends.
IpAtCall == IF stage = "new" THEN args.ip ELSE ip

\* Every Local send goes where the cached ip says at the call.
LocalSendFollowsIp ==
    [][(Sends /\ last'.via = "udp")
         => /\ last'.port = DefaultPort
            /\ IF IpAtCall = NoIp
               THEN last'.address = BroadcastIp /\ last'.bcast /\ broadcast'
               ELSE last'.address = IpAtCall]_vars

\* Every command issued while discovery is pending is broadcast.
PendingCommandsBroadcast ==
    [][(Searching /\ Called)
         => (Sends /\ last'.address = BroadcastIp /\ last'.bcast)]_vars

\* C10 (as stated): every Local send goes to 255.255.255.255 with broadcast mode
\* on when the cached ip is absent at the call and unicast to the cached ip
\* otherwise; every command issued while discovery is pending is broadcast, and
\* every command issued after a Resolved discovery is unicast to the resolved ip.
C10_AfterResolvedAlwaysUnicast ==
    /\ LocalSendFollowsIp
    /\ PendingCommandsBroadcast
    /\ [][(outcome.state = "Resolved" /\ Called)
            => (Sends /\ last'.address = outcome.ip)]_vars

\* C10 (amended): as stated, except that after a Resolved discovery a command is
\* unicast to the resolved ip only until setAddress is called: setAddress is the
\* one step that clears the cached ip, and commands after it are broadcast.
C10_SendFollowsCachedIp ==
    /\ LocalSendFollowsIp
    /\ PendingCommandsBroadcast
    /\ [][(outcome.state = "Resolved" /\ Called)
            => /\ Sends
               /\ last'.address = IF ip = NoIp THEN BroadcastIp ELSE outcome.ip
               /\ (ip # NoIp /\ ip' = NoIp => last'.data[2] = FnSetAddress)]_vars
    /\ [][(outcome.state = "Resolved" /\ ip' # ip)
            => (Called /\ last'.data[2] = FnSetAddress /\ ip' = NoIp)]_vars

C10_Witness ==
    /\ outcome.state = "Resolved"
    /\ detectPc = "done"
    /\ flow[1].address = BroadcastIp
    /\ last.by = "api"
    /\ last.address = outcome.ip
    /\ last.address = DeviceIp

\* A call of the named command that returned (it did not raise).
Returned(name) == Called /\ lastCall'.name = name /\ ~lastCall'.raised

\* C11: when a call of setAddress returns the cached ip is absent, whatever the
\* state it was called in and whatever its arguments; and every Local send made
\* while the cached ip is absent is a broadcast (the ip stays absent until the
\* discovery listener sets it).
C11_SetAddressClearsIp ==
    /\ [][Returned("setAddress") => ip' = NoIp]_vars
    /\ [][(stage = "live" /\ ip = NoIp /\ Sends /\ last'.via = "udp")
            => (last'.address = BroadcastIp /\ last'.bcast /\ broadcast')]_vars

\* setAddress cleared an ip given at construction and the next command went out
\* as a broadcast.
C11_Witness ==
    /\ args.ip = DeviceIp
    /\ ip = NoIp
    /\ calls = 2
    /\ lastCall.name = "openDoor"
    /\ last.via = "udp"
    /\ last.address = BroadcastIp

\* The completion callback of a send made in broadcast mode b runs.
Completion(b) == pending'[b] = pending[b] - 1

\* It reports an error.
FailedCompletion == cbErr' /\ \E b \in BOOLEAN : Completion(b)

\* C12: a send failure reported by the socket, Local or Remote, raises nothing
\* (no command's result changes, no exception escapes), hands no frame to the
\* socket again, and leaves the cached ip and the discovery state as they were.
C12_SendFailureSwallowed ==
    [][FailedCompletion
         => /\ lastCall' = lastCall /\ uncaught' = uncaught /\ stage' = stage
            /\ sent' = sent /\ last' = last /\ flow' = flow
            /\ ip' = ip /\ port' = port
            /\ detected' = detected /\ detectPc' = detectPc
            /\ listener' = listener /\ outcome' = outcome]_vars

\* Both sends of a resolved discovery and a command have completed, the last
\* completion with an error: three frames went out, the resolved ip is cached.
C12_Witness ==
    /\ cbErr
    /\ pending[TRUE] = 0 /\ pending[FALSE] = 0
    /\ sent = 3
    /\ detectPc = "done"
    /\ outcome.state = "Resolved"
    /\ ip = outcome.ip

\* C16: when the send whose completion fails was made in broadcast mode (no ip
\* was cached at the call) the callback disables broadcast mode, and when it
\* was a unicast send the callback leaves the flag alone, whatever discovery
\* and setAddress did to the cached ip between the call and the callback.
C16_FailureRestoresBroadcast ==
    [][(FailedCompletion /\ localSocket)
         => IF Completion(TRUE) THEN ~broadcast' ELSE broadcast' = broadcast]_vars

\* C17: a constructed instance has exactly one of localSocket and remoteSocket,
\* the one its socket argument decides, and no step changes either; an instance
\* with a remoteSocket has no serverIp and no serverPort, never has a discovery
\* listener or a detect() in progress, has sent no frame of the discovery flow,
\* and sends a frame only in a command its user calls.
C17_OneTransport ==
    /\ [](stage = "live"
            => /\ localSocket # remoteSocket
               /\ localSocket = (args.socket = "udp")
               /\ remoteSocket
                    => /\ serverIp = NoIp /\ serverPort = 0
                       /\ ~listener /\ detectPc = "none" /\ detected # "pending"
                       /\ flow = << >>)
    /\ [][stage = "live"
            => (localSocket' = localSocket /\ remoteSocket' = remoteSocket)]_vars
    /\ [][(remoteSocket /\ Sends) => (Called /\ last'.by = "api")]_vars

\* A Remote instance built with a serial, no ip and a callback target has sent
\* two frames, both for commands.
C17_Witness ==
    /\ stage = "live"
    /\ remoteSocket /\ ~localSocket
    /\ CallbackGiven /\ args.serial # 0 /\ args.ip = NoIp
    /\ sent = 2 /\ calls = 2
    /\ last.via = "tcp"

\* C18: after construction the cached ip changes only when the discovery
\* listener handles a reply carrying the instance's serial and when setAddress
\* returns (which clears it); every other command, every reply of another
\* serial or that cannot be decoded, and every send completion leave the cached
\* ip unchanged; the port never changes.
C18_IpChangesOnlyInTwoSteps ==
    /\ [][(stage = "live" /\ ip' # ip)
            => \/ Searching /\ listener /\ Delivered /\ Matching(lastMsg')
               \/ Returned("setAddress") /\ ip' = NoIp]_vars
    /\ [][(Called /\ lastCall'.name # "setAddress") => ip' = ip]_vars
    /\ [][(Delivered /\ ~Matching(lastMsg')) => ip' = ip]_vars
    /\ [][(\E b \in BOOLEAN : Completion(b)) => ip' = ip]_vars
    /\ [][stage = "live" => port' = port]_vars

\* Discovery resolved the ip; a second reply, two commands other than setAddress
\* and every completion later, it is still the cached ip.
C18_Witness ==
    /\ outcome.state = "Resolved"
    /\ ip = outcome.ip
    /\ ip # args.ip
    /\ received = 2
    /\ calls = 2
    /\ lastCall.name = "openDoor"
    /\ pending[TRUE] = 0 /\ pending[FALSE] = 0

\* detect() passes its await and sends.
Resumes == detectPc = "awaiting" /\ detectPc' = "done"

C20_SetAddressUsesOldIp ==
    [][Returned("setAddress")
         => /\ Sends
            /\ last'.by = "api"
            /\ last'.data[2] = FnSetAddress
            /\ last'.via = "udp"
                 => /\ last'.address = IF ip = NoIp THEN BroadcastIp ELSE ip
                    /\ pending'[ip = NoIp] = pending[ip = NoIp] + 1
            /\ ip' = NoIp]_vars

\* setAddress, called with a discovered ip cached, went unicast to that ip and
\* the ip is now absent.
C20_Witness ==
    /\ outcome = [state |-> "Resolved", ip |-> DeviceIp]
    /\ lastCall.name = "setAddress"
    /\ last.data[2] = FnSetAddress
    /\ last.address = DeviceIp
    /\ ip = NoIp

\* The function code the protocol assigns to each command.
FuncCodeOf(name) ==
    CASE name = "search" -> 148               \* 0x94
      [] name = "openDoor" -> 64              \* 0x40
      [] name = "getDate" -> 50               \* 0x32
      [] name = "setDate" -> 48               \* 0x30
      [] name = "setAuth" -> 80               \* 0x50
      [] name = "getAuth" -> 90               \* 0x5A
      [] name = "removeAuth" -> 82            \* 0x52
      [] name = "clearAuth" -> 84             \* 0x54
      [] name = "setServerAddress" -> 144     \* 0x90
      [] name = "setAddress" -> 150           \* 0x96
      [] name = "getServerAddress" -> 146     \* 0x92

\* A frame of 64 bytes that starts with 0x17 and the function code.
WellFormed(data, funcCode) ==
    /\ Len(data) = 64
    /\ \A i \in 1..64 : data[i] \in 0..255
    /\ data[1] = 23
    /\ data[2] = funcCode

\* The numeric arguments of a call fit the fields they are written to: the door
\* of openDoor and the interval one byte, the port two, a card number four.
ArgsFit(call) ==
    CASE call.name = "openDoor" -> call.args[1] \in 0..255
      [] call.name \in {"setAuth", "getAuth", "removeAuth"} -> call.args[1] >= 0
      [] call.name = "setServerAddress" ->
            call.args[2] \in 0..65535 /\ call.args[3] \in 0..255
      [] OTHER -> TRUE

ReadUInt32LE(data, off) ==
    data[off + 1] + 256 * data[off + 2] + 65536 * data[off + 3]
        + 16777216 * data[off + 4]

\* C14: every frame handed to a socket, by the discovery flow or by a command,
\* carries in bytes 4-7 the serial given at construction as a little-endian
\* uint32, and zeros when none was given; no step after construction changes
\* the serial.
C14_SerialInEveryFrame ==
    /\ [][Sends
            => /\ \A i \in 5..8 : last'.data[i] \in 0..255
               /\ ReadUInt32LE(last'.data, 4) = args.serial]_vars
    /\ [](stage = "live" => serial = args.serial)
    /\ [][stage = "live" => serial' = serial]_vars

\* The third frame of an instance of serial 0x12345678, a getAuth after the
\* two frames of its discovery, carries 78 56 34 12 in bytes 4-7.
C14_Witness ==
    /\ args.serial = 305419896
    /\ sent = 3
    /\ Len(flow) = 2
    /\ lastCall.name = "getAuth"
    /\ last.by = "api"
    /\ <<last.data[5], last.data[6], last.data[7], last.data[8]>> = <<120, 86, 52, 18>>

\* C15: in the frame of a setAuth(cardNo, door) call the payload's offsets
\* 12-15 (bytes 20-23 of the frame) hold 1 at offset 11 + door and 0 elsewhere
\* when door is 1, 2, 3 or 4, and four zeros for any other door.
C15_DoorBytes ==
    [][Returned("setAuth")
         => /\ Sends
            /\ \A k \in 1..4 :
                 last'.data[20 + k] = IF lastCall'.args[2] = k THEN 1 ELSE 0]_vars

\* setAuth for door 3 set the byte at payload offset 14 alone.
C15_Witness ==
    /\ lastCall.name = "setAuth"
    /\ ~lastCall.raised
    /\ lastCall.args[2] = 3
    /\ last.by = "api"
    /\ <<last.data[21], last.data[22], last.data[23], last.data[24]>> = <<0, 0, 1, 0>>

====
